---- MODULE Spec2Model ----
(***************************************************************************)
(* ReaPack transaction engine: Transaction (src/src/transaction.cpp),      *)
(* Download (src/src/download.cpp) and the collaborators they drive        *)
(* (DownloadQueue, Task, Registry), as one state machine.                  *)
(*                                                                         *)
(* Every handler runs on the single coordinating context, so one action    *)
(* is one whole handler with every call it makes: a download completion    *)
(* runs the job's finish observers in registration order, the queue's      *)
(* drained signal, and whatever the Transaction does in response.          *)
(* The handlers are written as operators from a state record to a state    *)
(* record so that they compose the way the calls do; S gathers the         *)
(* variables into the record and Set(s) scatters the result.               *)
(*                                                                         *)
(* Six specifications: Spec is the Transaction with its queue, tasks and   *)
(* Registry, and SpecFair the same with a worker pool that runs every job; *)
(* SpecDownloads is Download objects on their own, each keeping the        *)
(* history of what it announced; SpecPackage is one Package given Versions *)
(* in any order; SpecIndex is RemoteIndex and Category objects built by    *)
(* addPackage and addCategory calls (src/src/index.cpp); SpecProgress is   *)
(* the Progress dialog watching download queues (src/src/progress.cpp).    *)
(* Download::run is written once (runBefore, runAfter) and used by Spec,   *)
(* SpecFair and SpecDownloads.                                             *)
(***************************************************************************)
EXTENDS Integers, Sequences, FiniteSets, TLC

(***************************************************************************)
(* Bounds of the exploration.                                              *)
(***************************************************************************)
\* how many times cancel() is called on the Transaction
MaxCancels == 2
\* how many handler runs meet a failing collaborator (transfer, file write,
\* index parsing, host registration, registry persistence)
MaxFaults == 1

(***************************************************************************)
(* The remote repositories offered to the Transaction: two remotes, the    *)
(* packages their indexes list (in index order), and for each package its  *)
(* versions sorted ascending, each with the relative paths of its sources. *)
(* A of r1 and C of r2 both claim f1 and f2; B conflicts with nobody.      *)
(***************************************************************************)
Remotes == {"r1", "r2"}

Pkgs == {"A", "B", "C"}

AllPaths == <<"f0", "f1", "f2", "f3">>

Paths == {AllPaths[i] : i \in 1..Len(AllPaths)}

IndexPackages(r) ==
  CASE r = "r1" -> <<"A", "B">>
    [] r = "r2" -> <<"C">>

PkgVersions(p) ==
  CASE p = "A" -> << [pkg |-> "A", name |-> 10, files |-> {"f0"}],
                     [pkg |-> "A", name |-> 11, files |-> {"f1", "f2"}] >>
    [] p = "B" -> << [pkg |-> "B", name |-> 10, files |-> {"f3"}] >>
    [] p = "C" -> << [pkg |-> "C", name |-> 10, files |-> {"f1", "f2"}] >>

\* what lastVersion() returns for a Package without versions
Null == [name |-> <<>>, sources |-> 0]

\* Package::lastVersion(): the last element of the sorted version set
lastOf(versions) == IF versions = <<>> THEN Null ELSE versions[Len(versions)]

lastVersion(p) == lastOf(PkgVersions(p))

VersionNames(p) == {PkgVersions(p)[i].name : i \in 1..Len(PkgVersions(p))}

VersionFiles(p, n) ==
  IF n \in VersionNames(p)
    THEN (CHOOSE v \in {PkgVersions(p)[i] : i \in 1..Len(PkgVersions(p))} :
            v.name = n).files
    ELSE {}

\* a std::set<Path> is iterated in path order
SeqOfSet(S) == SelectSeq(AllPaths, LAMBDA p : p \in S)

\* locations on disk: final install targets (prefixPath), staged temporary
\* files of install tasks, and the saved index of a remote
Final(p) == [kind |-> "final", name |-> p]
Temp(p) == [kind |-> "tmp", name |-> p]
IndexFile(r) == [kind |-> "index", name |-> r]

\* error contexts
Url(n) == [kind |-> "url", name |-> n]
PathCtx(p) == [kind |-> "path", name |-> p]
FullName(p) == [kind |-> "fullname", name |-> p]

VARIABLES
  m_step,           \* Transaction::m_step: "Unknown", "Synchronize", "Install"
  m_isCancelled,    \* Transaction::m_isCancelled
  m_hasConflicts,   \* Transaction::m_hasConflicts
  m_remoteIndexes,  \* loaded indexes, in load order (by remote name)
  m_packages,       \* install candidates (version, registry entry)
  m_tasks,          \* tasks in creation order
  m_files,          \* owned-files set used for conflict detection
  m_errors,         \* (message, context) records
  m_new,            \* installs reported by install commits
  m_updates,        \* updates reported by install commits
  m_removals,       \* files reported removed by uninstall commits
  m_queue,          \* every Download pushed on the DownloadQueue, push order
  m_registry,       \* Registry: staged view, package -> installed version (0: none)
  durable,          \* Registry: durable store
  disk,             \* files present on disk
  log,              \* observable calls: task commits, registry commits, observers
  passes,           \* how many times updateAll ran
  cancels,          \* how many times cancel() was called by the user
  faults,           \* how many handler runs met a failing collaborator
  calls,            \* the user's calls so far (synchronize/uninstall), in order
  initial,          \* the registry and the disk the Transaction was constructed over
  transfers,        \* the worker pool: how many jobs it picked up, how many transfers run
  jobs,             \* Download objects on their own, each with its history
  m_versions,       \* Package::m_versions of one Package, in set order
  added,            \* the Versions given to that Package's addVersion so far
  packages,         \* Package objects of an index being built: type, category, versions
  categories,       \* Category objects: their index and Category::m_packages
  indexes,          \* RemoteIndex objects: m_categories and m_packages
  thrown,           \* the addPackage/addCategory calls made and what each threw
  dialog,           \* the Progress dialog: m_transaction, m_done, m_total, position
  watched           \* the queue a Progress watches: its onPush observers and downloads

vars == << m_step, m_isCancelled, m_hasConflicts, m_remoteIndexes, m_packages,
           m_tasks, m_files, m_errors, m_new, m_updates, m_removals, m_queue,
           m_registry, durable, disk, log, passes, cancels, faults, calls, initial,
           transfers, jobs, m_versions, added, packages, categories, indexes, thrown,
           dialog, watched >>

\* the Transaction's variables, and those of the objects studied on their own
transaction == << m_step, m_isCancelled, m_hasConflicts, m_remoteIndexes, m_packages,
                  m_tasks, m_files, m_errors, m_new, m_updates, m_removals, m_queue,
                  m_registry, durable, disk, log, passes, cancels, faults, calls,
                  initial, transfers >>

package == << m_versions, added >>

index == << packages, categories, indexes, thrown >>

progress == << dialog, watched >>

apart == << jobs, package, index, progress >>

\* the objects a specification does not concern stay as they are here
NoJobs == jobs = <<>>

NoPackage == m_versions = <<>> /\ added = <<>>

NoIndex == packages = <<>> /\ categories = <<>> /\ indexes = <<>> /\ thrown = <<>>

NoProgress == dialog = <<>> /\ watched = <<>>

S == [ step |-> m_step, cancelled |-> m_isCancelled, conflicts |-> m_hasConflicts,
       indexes |-> m_remoteIndexes, packages |-> m_packages, tasks |-> m_tasks,
       files |-> m_files, errors |-> m_errors, new |-> m_new,
       updates |-> m_updates, removals |-> m_removals, queue |-> m_queue,
       reg |-> m_registry, durable |-> durable, disk |-> disk, log |-> log,
       passes |-> passes ]

Set(s) ==
  /\ m_step' = s.step
  /\ m_isCancelled' = s.cancelled
  /\ m_hasConflicts' = s.conflicts
  /\ m_remoteIndexes' = s.indexes
  /\ m_packages' = s.packages
  /\ m_tasks' = s.tasks
  /\ m_files' = s.files
  /\ m_errors' = s.errors
  /\ m_new' = s.new
  /\ m_updates' = s.updates
  /\ m_removals' = s.removals
  /\ m_queue' = s.queue
  /\ m_registry' = s.reg
  /\ durable' = s.durable
  /\ disk' = s.disk
  /\ log' = s.log
  /\ passes' = s.passes

Event(e, i) == [ev |-> e, task |-> i]

(***************************************************************************)
(* Registry (spec 4.2): query, queryAll, getFiles, push, forget, commit.   *)
(***************************************************************************)
PkgOrder == <<"A", "B", "C">>

RemoteOf(p) == CHOOSE r \in Remotes : \E i \in 1..Len(IndexPackages(r)) : IndexPackages(r)[i] = p

StatusOf(reg, p) ==
  IF reg[p] = 0 THEN "Uninstalled"
  ELSE IF reg[p] = lastVersion(p).name THEN "UpToDate"
  ELSE "UpdateAvailable"

query(s, p) == [pkg |-> p, version |-> s.reg[p], status |-> StatusOf(s.reg, p)]

queryAll(s, r) ==
  SelectSeq([i \in 1..Len(PkgOrder) |-> query(s, PkgOrder[i])],
            LAMBDA e : RemoteOf(e.pkg) = r /\ e.version # 0)

getFiles(s, entry) == VersionFiles(entry.pkg, s.reg[entry.pkg])

push(s, pkg, name) == [s EXCEPT !.reg[pkg] = name]

forget(s, pkg) == [s EXCEPT !.reg[pkg] = 0]

\* Registry::commit(): all staged mutations become durable, or none does
registryCommit(s, env) ==
  [s EXCEPT !.durable = IF env.commitOk THEN s.reg ELSE @,
            !.log = IF env.commitOk THEN Append(@, Event("registry", 0))
                    ELSE @ \o <<Event("registry", 0), Event("PersistenceError", 0)>>]

(***************************************************************************)
(* DownloadQueue (spec 4.3): push, idle, abort.                            *)
(***************************************************************************)
Terminal == {"Success", "Failure", "Aborted"}

Download(kind, name, task) ==
  [kind |-> kind, name |-> name, task |-> task, state |-> "Idle", abort |-> FALSE]

queuePush(s, dl) == [s EXCEPT !.queue = Append(@, dl)]

idle(s) == \A i \in 1..Len(s.queue) : s.queue[i].state \in Terminal

queueAbort(s) ==
  [s EXCEPT !.queue = [i \in 1..Len(s.queue) |->
     IF s.queue[i].state \in Terminal THEN s.queue[i]
     ELSE [s.queue[i] EXCEPT !.abort = TRUE]]]

(***************************************************************************)
(* Transaction helpers.                                                    *)
(***************************************************************************)
addError(s, message, context) ==
  [s EXCEPT !.errors = Append(@, [message |-> message, context |-> context])]

allFilesExists(s, list) == \A p \in list : Final(p) \in s.disk

\* registerFiles() giving up at the first conflict
registerPathFirstOnly(s, path) ==
  IF path \notin s.files \/ s.conflicts THEN s
  ELSE [addError(s, "Conflict", PathCtx(path)) EXCEPT !.conflicts = TRUE]

\* the body of registerFiles' loop, for one path of the list
registerPath(s, path) ==
  IF path \notin s.files THEN s
  ELSE [addError(s, "Conflict", PathCtx(path)) EXCEPT !.conflicts = TRUE]

RECURSIVE registerLoop(_, _)
registerLoop(s, paths) ==
  IF paths = <<>> THEN s
  ELSE registerLoop(registerPath(s, Head(paths)), Tail(paths))

registerFiles(s, list) ==
  [registerLoop(s, SeqOfSet(list)) EXCEPT !.files = @ \cup list]

\* saveFile(dl, path): [ok, s]
saveFile(s, i, path, env) ==
  IF s.queue[i].state # "Success"
    THEN [ok |-> FALSE, s |-> addError(s, "download failed", Url(s.queue[i].name))]
  ELSE IF ~env.writeOk
    THEN [ok |-> FALSE, s |-> addError(s, "cannot write", path)]
  ELSE [ok |-> TRUE, s |-> [s EXCEPT !.disk = @ \cup {path}]]

(***************************************************************************)
(* Task (spec 4.5): InstallTask and RemoveTask.                            *)
(***************************************************************************)
InstallTask(ver, status) ==
  [kind |-> "install", pkg |-> ver.pkg, ver |-> ver.name, status |-> status,
   files |-> ver.files, staged |-> {}, cancelled |-> FALSE]

RemoveTask(entry, files) ==
  [kind |-> "remove", pkg |-> entry.pkg, ver |-> entry.version,
   status |-> entry.status, files |-> files, staged |-> {}, cancelled |-> FALSE]

\* Task::rollback(): staged temporary files are deleted, final paths untouched
taskRollback(s, k) ==
  [s EXCEPT !.disk = @ \ {Temp(p) : p \in s.tasks[k].staged},
            !.tasks[k].staged = {},
            !.tasks[k].cancelled = TRUE]

RECURSIVE rollbackAll(_, _)
rollbackAll(s, k) ==
  IF k > Len(s.tasks) THEN s ELSE rollbackAll(taskRollback(s, k), k + 1)

\* the commit callback of install() giving up when the host refuses the
\* registration: nothing pushed
installOnCommitHostFatal(s, k, env) ==
  LET t == s.tasks[k]
      pe == [pkg |-> t.pkg, ver |-> t.ver]
      s1 == IF t.status = "UpdateAvailable"
              THEN [s EXCEPT !.updates = Append(@, pe)]
              ELSE [s EXCEPT !.new = Append(@, pe)]
  IN IF t.pkg \in env.hostFail
       THEN [addError(s1, "Cannot register", FullName(t.pkg))
               EXCEPT !.log = Append(@, Event("HostError", k))]
       ELSE push(s1, t.pkg, t.ver)

\* the commit callback of install()
installOnCommit(s, k, env) ==
  LET t == s.tasks[k]
      pe == [pkg |-> t.pkg, ver |-> t.ver]
      s1 == IF t.status = "UpdateAvailable"
              THEN [s EXCEPT !.updates = Append(@, pe)]
              ELSE [s EXCEPT !.new = Append(@, pe)]
      s2 == push(s1, t.pkg, t.ver)
  IN IF t.pkg \in env.hostFail
       THEN [addError(s2, "Cannot register", FullName(t.pkg))
               EXCEPT !.log = Append(@, Event("HostError", k))]
       ELSE s2

\* the commit callback of uninstall()
uninstallOnCommit(s, k, removedFiles) ==
  [forget(s, s.tasks[k].pkg) EXCEPT !.removals = @ \o SeqOfSet(removedFiles)]

\* Task::commit(): an install moves every staged file to its final path and
\* runs its callback; a removal deletes the owned files that still exist
taskCommit(s, k, env) ==
  LET t == s.tasks[k] IN
  IF t.cancelled THEN s
  ELSE IF t.kind = "install"
    THEN installOnCommit(
           [s EXCEPT !.disk = (@ \ {Temp(p) : p \in t.staged})
                                \cup {Final(p) : p \in t.staged}], k, env)
    ELSE uninstallOnCommit(
           [s EXCEPT !.disk = @ \ {Final(p) : p \in t.files}], k,
           {p \in t.files : Final(p) \in s.disk})

\* the completion observer an InstallTask puts on each of its downloads
saveSource(s, i, env) ==
  LET k == s.queue[i].task
      p == s.queue[i].name
  IN IF s.tasks[k].cancelled THEN s
     ELSE LET r == saveFile(s, i, Temp(p), env)
          IN IF r.ok THEN [r.s EXCEPT !.tasks[k].staged = @ \cup {p}]
             ELSE taskRollback(r.s, k)

(***************************************************************************)
(* Transaction (src/src/transaction.cpp).                                  *)
(***************************************************************************)
RECURSIVE commitTasks(_, _, _)
commitTasks(s, k, env) ==
  IF k > Len(s.tasks) THEN s
  ELSE commitTasks(
         taskCommit([s EXCEPT !.log = Append(@, Event("commit", k))], k, env),
         k + 1, env)

\* finish() without its m_isCancelled test
finishCommitsAlways(s, env) ==
  [registryCommit(commitTasks(s, 1, env), env)
     EXCEPT !.log = @ \o <<Event("onFinish", 0), Event("onDestroy", 0)>>]

finish(s, env) ==
  LET s1 == IF ~s.cancelled THEN registryCommit(commitTasks(s, 1, env), env) ELSE s
  IN [s1 EXCEPT !.log = @ \o <<Event("onFinish", 0), Event("onDestroy", 0)>>]

\* addTask() waiting for a drained signal whatever the queue holds
addTaskAwaitingDrain(s, task, env) == [s EXCEPT !.tasks = Append(@, task)]

addTask(s, task, env) ==
  LET s1 == [s EXCEPT !.tasks = Append(@, task)]
  IN IF idle(s1) THEN finish(s1, env) ELSE s1

\* the InstallTask constructor: one Download per source of the version
RECURSIVE pushSources(_, _, _)
pushSources(s, paths, k) ==
  IF paths = <<>> THEN s
  ELSE pushSources(queuePush(s, Download("file", Head(paths), k)), Tail(paths), k)

RECURSIVE installLoop(_, _, _)
installLoop(s, n, env) ==
  IF n > Len(s.packages) THEN s
  ELSE LET entry == s.packages[n]
           task == InstallTask(entry.ver, entry.entry.status)
           s1 == pushSources(s, SeqOfSet(entry.ver.files), Len(s.tasks) + 1)
       IN installLoop(addTask(s1, task, env), n + 1, env)

install(s, env) == installLoop([s EXCEPT !.step = "Install"], 1, env)

\* updateAll's loop body taking the first version of the package
visitPackageFirstVersion(s, pkg) ==
  LET entry == query(s, pkg)
      ver == PkgVersions(pkg)[1]
      s1 == registerFiles(s, ver.files)
  IN IF entry.status = "UpToDate" /\ allFilesExists(s1, ver.files) THEN s1
     ELSE [s1 EXCEPT !.packages = Append(@,
            [ver |-> ver,
             entry |-> [entry EXCEPT !.status =
                          IF @ = "UpToDate" THEN "Uninstalled" ELSE @]])]

\* updateAll's loop body skipping every UpToDate package, files or not
visitPackageTrustingRegistry(s, pkg) ==
  LET entry == query(s, pkg)
      ver == lastVersion(pkg)
      s1 == registerFiles(s, ver.files)
  IN IF entry.status = "UpToDate" THEN s1
     ELSE [s1 EXCEPT !.packages = Append(@, [ver |-> ver, entry |-> entry])]

\* the body of updateAll's loop, for one package of one loaded index
\* updateAll's loop body registering the files of install candidates only
visitPackageRegisteringCandidates(s, pkg) ==
  LET entry == query(s, pkg)
      ver == lastVersion(pkg)
  IN IF entry.status = "UpToDate" /\ allFilesExists(s, ver.files) THEN s
     ELSE [registerFiles(s, ver.files) EXCEPT !.packages = Append(@,
            [ver |-> ver,
             entry |-> [entry EXCEPT !.status =
                          IF @ = "UpToDate" THEN "Uninstalled" ELSE @]])]

\* updateAll's loop body leaving a package alone once a conflict was found
visitPackageUnlessConflicted(s, pkg) ==
  LET entry == query(s, pkg)
      ver == lastVersion(pkg)
      s1 == registerFiles(s, ver.files)
  IN IF s.conflicts THEN s
     ELSE IF entry.status = "UpToDate" /\ allFilesExists(s1, ver.files) THEN s1
     ELSE [s1 EXCEPT !.packages = Append(@,
            [ver |-> ver,
             entry |-> [entry EXCEPT !.status =
                          IF @ = "UpToDate" THEN "Uninstalled" ELSE @]])]

visitPackage(s, pkg) ==
  LET entry == query(s, pkg)
      ver == lastVersion(pkg)
      s1 == registerFiles(s, ver.files)
  IN IF entry.status = "UpToDate" /\ allFilesExists(s1, ver.files) THEN s1
     ELSE [s1 EXCEPT !.packages = Append(@,
            [ver |-> ver,
             entry |-> [entry EXCEPT !.status =
                          IF @ = "UpToDate" THEN "Uninstalled" ELSE @]])]

RECURSIVE visitPackages(_, _)
visitPackages(s, pkgs) ==
  IF pkgs = <<>> THEN s ELSE visitPackages(visitPackage(s, Head(pkgs)), Tail(pkgs))

RECURSIVE visitIndexes(_, _)
visitIndexes(s, ris) ==
  IF ris = <<>> THEN s
  ELSE visitIndexes(visitPackages(s, IndexPackages(Head(ris))), Tail(ris))

\* updateAll() installing whatever it resolved, conflicts or not
updateAllIgnoringConflicts(s, env) ==
  LET s1 == visitIndexes([s EXCEPT !.passes = @ + 1], s.indexes)
  IN IF s1.packages = <<>> THEN finish(s1, env) ELSE install(s1, env)

updateAll(s, env) ==
  LET s1 == visitIndexes([s EXCEPT !.passes = @ + 1], s.indexes)
  IN IF s1.packages = <<>> \/ s1.conflicts THEN finish(s1, env) ELSE install(s1, env)

\* cancel() finishing whatever the queue holds
cancelFinishingAtOnce(s, env) ==
  finish(rollbackAll([s EXCEPT !.cancelled = TRUE], 1), env)

cancel(s, env) ==
  LET s1 == rollbackAll([s EXCEPT !.cancelled = TRUE], 1)
  IN IF idle(s1) THEN finish(s1, env) ELSE queueAbort(s1)

RECURSIVE uninstallLoop(_, _, _)
uninstallLoop(s, entries, env) ==
  IF entries = <<>> THEN s
  ELSE LET entry == Head(entries)
           task == RemoveTask(entry, getFiles(s, entry))
       IN uninstallLoop(addTask(s, task, env), Tail(entries), env)

\* uninstall() without its entries.empty() test
uninstallWithoutEmptyTest(s, remote, env) ==
  uninstallLoop(s, queryAll(s, remote), env)

uninstall(s, remote, env) ==
  LET entries == queryAll(s, remote)
  IN IF entries = <<>> THEN cancel(s, env) ELSE uninstallLoop(s, entries, env)

synchronize(s, remote) ==
  queuePush([s EXCEPT !.step = "Synchronize"], Download("index", remote, 0))

\* saveRemoteIndex() swallowing the parse error
saveRemoteIndexSilently(s, i, env) ==
  LET r == saveFile(s, i, IndexFile(s.queue[i].name), env)
  IN IF ~r.ok THEN r.s
     ELSE IF env.parseOk
       THEN [r.s EXCEPT !.indexes = Append(@, s.queue[i].name)]
       ELSE r.s

saveRemoteIndex(s, i, env) ==
  LET r == saveFile(s, i, IndexFile(s.queue[i].name), env)
  IN IF ~r.ok THEN r.s
     ELSE IF env.parseOk
       THEN [r.s EXCEPT !.indexes = Append(@, s.queue[i].name)]
       ELSE addError(r.s, "invalid index", Url(s.queue[i].name))

\* the queue-drained handler registered by the constructor
onDone(s, env) ==
  LET s1 == [s EXCEPT !.log = Append(@, Event("onDone", 0))]
  IN IF s1.step = "Synchronize" THEN updateAll(s1, env) ELSE finish(s1, env)

(***************************************************************************)
(* Download (src/src/download.cpp).                                        *)
(***************************************************************************)
\* Download::finish(state): the job's observers in registration order, the
\* Transaction's or the task's first, then the queue's, which signals the
\* drain when no job is left
downloadFinish(s, i, state, env) ==
  LET s1 == [s EXCEPT !.queue[i].state = state]
      s2 == IF s1.queue[i].kind = "index" THEN saveRemoteIndex(s1, i, env)
            ELSE saveSource(s1, i, env)
  IN IF idle(s2) THEN onDone(s2, env) ELSE s2

\* what Download::run calls, in order
Finish(state) == [call |-> "finish", state |-> state, reason |-> ""]

\* finish(state, contents)
FinishWith(state, reason) == [call |-> "finish", state |-> state, reason |-> reason]

Notify(state) == [call |-> "notify", state |-> state, reason |-> ""]

Perform == [call |-> "curl_easy_perform", state |-> "", reason |-> ""]

\* the message run formats from the transport's result and its error buffer
Diagnostic(res) == IF res = "CURLE_OK" THEN "No error (CURLE_OK): No details"
                   ELSE "Error (CURLE_ERR): No details"

\* Download::run losing the return that follows finish(Aborted)
runBeforeWithoutReturn(aborted) ==
  (IF aborted THEN <<Finish("Aborted")>> ELSE <<>>) \o <<Notify("Running"), Perform>>

\* Download::run without its first aborted() test
runBeforeIgnoringAbort(aborted) == <<Notify("Running"), Perform>>

\* Download::run up to the call of curl_easy_perform
runBefore(aborted) ==
  IF aborted THEN <<FinishWith("Aborted", "cancelled")>>
  ELSE <<Notify("Running"), Perform>>

\* Download::run losing the 'else' that follows finish(Aborted)
runAfterFallThrough(aborted, res) ==
  (IF aborted THEN <<Finish("Aborted")>> ELSE <<>>)
    \o (IF res # "CURLE_OK" THEN <<Finish("Failure")>> ELSE <<Finish("Success")>>)

\* Download::run testing the transport's result before the abort flag
runAfterResultFirst(aborted, res) ==
  IF res # "CURLE_OK" THEN <<FinishWith("Failure", Diagnostic(res))>>
  ELSE IF aborted THEN <<FinishWith("Aborted", "aborted by user")>>
  ELSE <<Finish("Success")>>

\* Download::run once curl_easy_perform returned res
runAfter(aborted, res) ==
  IF aborted THEN <<FinishWith("Aborted", "aborted by user")>>
  ELSE IF res # "CURLE_OK" THEN <<FinishWith("Failure", Diagnostic(res))>>
  ELSE <<Finish("Success")>>

\* the calls of run, made on job i of the Transaction's queue
RECURSIVE doCalls(_, _, _, _)
doCalls(s, i, todo, env) ==
  IF todo = <<>> THEN s
  ELSE LET c == Head(todo)
           s1 == CASE c.call = "finish" -> downloadFinish(s, i, c.state, env)
                   [] c.call = "notify" -> [s EXCEPT !.queue[i].state = c.state]
                   [] OTHER -> s
       IN doCalls(s1, i, Tail(todo), env)

runStart(s, i, env) == doCalls(s, i, runBefore(s.queue[i].abort), env)

runEnd(s, i, res, env) == doCalls(s, i, runAfter(s.queue[i].abort, res), env)

(***************************************************************************)
(* The state machine.  The environment of the Transaction: the registry    *)
(* and the disk it is constructed over, the user's calls, the worker       *)
(* threads, and the outcomes of what the handlers call (transfers, file    *)
(* writes, index parsing, host registration, registry persistence).        *)
(*                                                                         *)
(* The owner of a Transaction uses it for one synchronize wave, calling    *)
(* synchronize once per remote before the wave is resolved, or for one     *)
(* uninstall, and drops it when it has finished; cancel() comes from the   *)
(* user at any time, also after the end.                                   *)
(***************************************************************************)
\* hostFail: the packages whose registration with the host fails
Env == [commitOk : BOOLEAN, hostFail : SUBSET Pkgs, writeOk : BOOLEAN, parseOk : BOOLEAN]

NoFault == [commitOk |-> TRUE, hostFail |-> {}, writeOk |-> TRUE, parseOk |-> TRUE]

Installed(reg) == {p \in Pkgs : reg[p] # 0}

OwnedFiles(reg, p) == VersionFiles(p, reg[p])

\* a registry the program can have committed: no path owned twice
Registries ==
  {reg \in [Pkgs -> {0, 10, 11}] :
     /\ \A p \in Pkgs : reg[p] \in VersionNames(p) \cup {0}
     /\ \A p, q \in Installed(reg) :
          p # q => OwnedFiles(reg, p) \cap OwnedFiles(reg, q) = {}}

\* a Transaction right after its constructor
Constructed ==
  /\ m_step = "Unknown"
  /\ m_isCancelled = FALSE
  /\ m_hasConflicts = FALSE
  /\ m_remoteIndexes = <<>>
  /\ m_packages = <<>>
  /\ m_tasks = <<>>
  /\ m_files = {}
  /\ m_errors = <<>>
  /\ m_new = <<>>
  /\ m_updates = <<>>
  /\ m_removals = <<>>
  /\ m_queue = <<>>
  /\ log = <<>>
  /\ passes = 0
  /\ cancels = 0
  /\ faults = 0
  /\ calls = <<>>
  /\ transfers = [begun |-> 0, running |-> 0]

Init ==
  /\ Constructed
  /\ m_registry \in Registries
  /\ durable = m_registry
  \* the owned files are on disk, but for at most one the user deleted
  /\ \E missing \in SUBSET Paths :
       /\ Cardinality(missing) <= 1
       /\ missing \subseteq UNION {OwnedFiles(m_registry, p) : p \in Pkgs}
       /\ disk = {Final(f) : f \in UNION {OwnedFiles(m_registry, p) : p \in Pkgs} \ missing}
  /\ initial = [registry |-> m_registry, disk |-> disk]
  /\ NoJobs /\ NoPackage /\ NoIndex /\ NoProgress

\* a Transaction nobody calls, over an empty Registry
NoTransaction ==
  /\ Constructed
  /\ m_registry = [p \in Pkgs |-> 0]
  /\ durable = m_registry
  /\ disk = {}
  /\ initial = [registry |-> m_registry, disk |-> disk]

Fired(e) == Len(SelectSeq(log, LAMBDA x : x.ev = e))

Finished == Fired("onFinish") > 0

Called(op) == {calls[i].remote : i \in {j \in 1..Len(calls) : calls[j].op = op}}

Synchronize(remote) ==
  /\ ~Finished
  /\ passes = 0
  /\ Called("uninstall") = {}
  /\ remote \notin Called("synchronize")
  /\ Set(synchronize(S, remote))
  /\ calls' = Append(calls, [op |-> "synchronize", remote |-> remote])
  /\ UNCHANGED << cancels, faults, initial, transfers >>
  /\ UNCHANGED apart

\* uninstall() commits removals and the registry: only persistence can fail
Uninstall(remote, commitOk) ==
  /\ ~Finished
  /\ calls = <<>>
  /\ commitOk \/ faults < MaxFaults
  /\ Set(uninstall(S, remote, [NoFault EXCEPT !.commitOk = commitOk]))
  /\ calls' = Append(calls, [op |-> "uninstall", remote |-> remote])
  /\ faults' = IF commitOk THEN faults ELSE faults + 1
  /\ UNCHANGED << cancels, initial, transfers >>
  /\ UNCHANGED apart

\* cancel() sets m_isCancelled first, so nothing it calls can fail
Cancel ==
  /\ cancels < MaxCancels
  /\ Set(cancel(S, NoFault))
  /\ cancels' = cancels + 1
  /\ UNCHANGED << calls, faults, initial, transfers >>
  /\ UNCHANGED apart

\* the worker pool's view of a queue: the jobs picked up so far (a job never
\* returns to Idle) and the transfers now running
Workers(queue) ==
  [begun |-> Cardinality({i \in 1..Len(queue) : queue[i].state # "Idle"}),
   running |-> Cardinality({i \in 1..Len(queue) : queue[i].state = "Running"})]

\* a worker thread picks the job up; a job is only aborted by cancel(), so
\* nothing the handlers of an aborted job call can fail
RunStart(i) ==
  /\ m_queue[i].state = "Idle"
  /\ Set(runStart(S, i, NoFault))
  /\ transfers' = Workers(m_queue')
  /\ UNCHANGED << cancels, calls, faults, initial >>
  /\ UNCHANGED apart

\* the outcomes to draw when the transfer of job i returns res: only of
\* calls the completion can make.  The index is parsed and the file written
\* only after a successful transfer; registration concerns the packages that
\* have a task; a cancelled Transaction commits nothing.
Outcomes(i, res) ==
  {env \in Env :
     /\ env.hostFail \subseteq {m_tasks[k].pkg : k \in 1..Len(m_tasks)}
     /\ (m_queue[i].kind # "index" \/ res # "CURLE_OK") => env.parseOk
     /\ (res # "CURLE_OK" \/ m_queue[i].abort) => env.writeOk
     /\ m_isCancelled => env.commitOk /\ env.hostFail = {}}

\* the transfer returns
RunEnd(i, res, env) ==
  /\ m_queue[i].state = "Running"
  /\ env \in Outcomes(i, res)
  /\ (res = "CURLE_OK" /\ env = NoFault) \/ faults < MaxFaults
  /\ Set(runEnd(S, i, res, env))
  /\ transfers' = Workers(m_queue')
  /\ faults' = IF res = "CURLE_OK" /\ env = NoFault THEN faults ELSE faults + 1
  /\ UNCHANGED << cancels, calls, initial >>
  /\ UNCHANGED apart

Next ==
  \/ \E remote \in Remotes : Synchronize(remote)
  \/ \E remote \in Remotes, commitOk \in BOOLEAN : Uninstall(remote, commitOk)
  \/ Cancel
  \/ \E i \in 1..Len(m_queue) : RunStart(i)
  \/ \E i \in 1..Len(m_queue), res \in {"CURLE_OK", "CURLE_ERR"}, env \in Env :
       RunEnd(i, res, env)

Spec == Init /\ [][Next]_vars

\* a worker thread can pick a job up
Waiting == \E i \in 1..Len(m_queue) : m_queue[i].state = "Idle"

\* a transfer can return
InFlight == \E i \in 1..Len(m_queue) : m_queue[i].state = "Running"

\* the Transaction whose every enqueued download is picked up by a worker
\* and whose every transfer returns.  A step that picks a job up is a
\* RunStart step, possible exactly when a job waits: the job starts its
\* transfer or, aborted, ends at once.  A step that leaves one transfer less
\* running is a RunEnd step, possible exactly when a transfer is in flight.
SpecFair ==
  /\ Spec
  /\ WF_transfers(Waiting /\ \E started \in {0, 1} :
                    transfers' = [begun |-> transfers.begun + 1,
                                  running |-> transfers.running + started])
  /\ WF_transfers(InFlight /\ transfers' = [transfers EXCEPT !.running = @ - 1])

(***************************************************************************)
(* Download objects on their own (src/src/download.cpp): their owner       *)
(* registers completion observers and starts them, a worker thread runs    *)
(* each once, and abort may be requested at any time.  Each job records    *)
(* what it announced, the observers it fired, how often it called the      *)
(* transport and what its buffer holds.                                    *)
(***************************************************************************)
\* how many Download objects
NJobs == 2

\* the observers an owner registers with onFinish
Owners == {"owner", "queue"}

NewJob ==
  [state |-> "Idle", abort |-> FALSE, started |-> FALSE, registered |-> <<>>,
   fired |-> <<>>, notified |-> <<>>, transfers |-> 0, contents |-> "",
   reason |-> "", poll |-> -1]

\* Download::onFinish(callback)
jobOnFinish(dl, o) == [dl EXCEPT !.registered = Append(@, o)]

\* Download::start(): the worker thread, then the observer that deletes it
jobStart(dl) == jobOnFinish([dl EXCEPT !.started = TRUE], "thread")

\* Download::finish(state): the state is set and announced, and every
\* registered observer fires, in registration order
jobFinish(dl, state) ==
  [dl EXCEPT !.state = state,
             !.notified = Append(@, state),
             !.fired = @ \o dl.registered]

\* WriteData: what the transfer received is appended to the buffer
WriteData(dl, res) ==
  [dl EXCEPT !.contents = IF res = "CURLE_OK" THEN "bytes" ELSE @]

\* Download::UpdateProgress: what the transport's progress poll is answered
UpdateProgress(dl) == IF dl.abort THEN 1 ELSE 0

\* the calls of run, made on a Download of its own
RECURSIVE jobCalls(_, _)
jobCalls(dl, todo) ==
  IF todo = <<>> THEN dl
  ELSE LET c == Head(todo)
           d1 == CASE c.call = "finish" ->
                        [jobFinish(dl, c.state) EXCEPT !.reason = c.reason]
                   [] c.call = "notify" ->
                        [dl EXCEPT !.state = c.state, !.notified = Append(@, c.state)]
                   [] OTHER -> [dl EXCEPT !.transfers = @ + 1]
       IN jobCalls(d1, Tail(todo))

InitDownloads ==
  /\ NoTransaction /\ NoPackage /\ NoIndex /\ NoProgress
  /\ jobs = [i \in 1..NJobs |-> NewJob]

OnFinish(i, o) ==
  /\ ~jobs[i].started
  /\ \A n \in 1..Len(jobs[i].registered) : jobs[i].registered[n] # o
  /\ jobs' = [jobs EXCEPT ![i] = jobOnFinish(@, o)]
  /\ UNCHANGED << transaction, package, index, progress >>

Start(i) ==
  /\ ~jobs[i].started
  /\ jobs' = [jobs EXCEPT ![i] = jobStart(@)]
  /\ UNCHANGED << transaction, package, index, progress >>

Abort(i) ==
  /\ ~jobs[i].abort
  /\ jobs' = [jobs EXCEPT ![i].abort = TRUE]
  /\ UNCHANGED << transaction, package, index, progress >>

\* a worker thread invokes run(context), which goes up to the transfer
Run(i) ==
  /\ jobs[i].started
  /\ jobs[i].notified = <<>>
  /\ jobs' = [jobs EXCEPT ![i] = jobCalls(@, runBefore(@.abort))]
  /\ UNCHANGED << transaction, package, index, progress >>

\* the transport polls the progress callback during the transfer
Poll(i) ==
  /\ jobs[i].state = "Running"
  /\ jobs' = [jobs EXCEPT ![i].poll = UpdateProgress(jobs[i])]
  /\ UNCHANGED << transaction, package, index, progress >>

\* the transfer returns res and run goes on to its end
Return(i, res) ==
  /\ jobs[i].state = "Running"
  /\ jobs' = [jobs EXCEPT ![i] = jobCalls(WriteData(@, res), runAfter(@.abort, res))]
  /\ UNCHANGED << transaction, package, index, progress >>

NextDownloads ==
  \/ \E i \in 1..NJobs, o \in Owners : OnFinish(i, o)
  \/ \E i \in 1..NJobs : Start(i)
  \/ \E i \in 1..NJobs : Abort(i)
  \/ \E i \in 1..NJobs : Run(i)
  \/ \E i \in 1..NJobs : Poll(i)
  \/ \E i \in 1..NJobs, res \in {"CURLE_OK", "CURLE_ERR"} : Return(i, res)

SpecDownloads == InitDownloads /\ [][NextDownloads]_vars

(***************************************************************************)
(* A Package on its own (src/src/package.hpp, src/test/package.cpp): the   *)
(* index loader gives it Versions with addVersion, in any order.  A        *)
(* version name is its dot-separated segments, each a string of digits.    *)
(***************************************************************************)
\* how many addVersion calls
MaxAdds == 4

\* "0.5", "1", "1.9" and "1.10"
Names ==
  { << <<0>>, <<5>> >>, << <<1>> >>, << <<1>>, <<9>> >>, << <<1>>, <<1, 0>> >> }

\* the Versions offered: a name and how many sources
Versions == [name : Names, sources : 0..2]

\* the number a segment's digits write
RECURSIVE SegValue(_)
SegValue(digits) ==
  IF digits = <<>> THEN 0
  ELSE 10 * SegValue(SubSeq(digits, 1, Len(digits) - 1)) + digits[Len(digits)]

\* the characters of a name, the dot sorting before every digit
RECURSIVE Chars(_)
Chars(name) ==
  IF name = <<>> THEN <<>>
  ELSE IF Len(name) = 1 THEN name[1]
  ELSE name[1] \o <<-1>> \o Chars(Tail(name))

RECURSIVE compareChars(_, _)
compareChars(a, b) ==
  IF a = <<>> /\ b = <<>> THEN 0
  ELSE IF a = <<>> THEN -1
  ELSE IF b = <<>> THEN 1
  ELSE IF Head(a) < Head(b) THEN -1
  ELSE IF Head(a) > Head(b) THEN 1
  ELSE compareChars(Tail(a), Tail(b))

\* version names compared as strings
compareAsStrings(a, b) == compareChars(Chars(a), Chars(b))

RECURSIVE compareFrom(_, _, _)
compareFrom(a, b, k) ==
  IF k > Len(a) /\ k > Len(b) THEN 0
  ELSE LET l == IF k <= Len(a) THEN SegValue(a[k]) ELSE 0
           r == IF k <= Len(b) THEN SegValue(b[k]) ELSE 0
       IN IF l < r THEN -1 ELSE IF l > r THEN 1 ELSE compareFrom(a, b, k + 1)

\* version names compared segment by segment, as numbers
compare(a, b) == compareFrom(a, b, 1)

\* addVersion keeping a Version without sources
addVersionKeepingEmpty(versions, ver) ==
  IF \E n \in 1..Len(versions) : compare(versions[n].name, ver.name) = 0
    THEN versions
  ELSE SelectSeq(versions, LAMBDA v : compare(v.name, ver.name) < 0)
         \o <<ver>>
         \o SelectSeq(versions, LAMBDA v : compare(v.name, ver.name) > 0)

\* Package::addVersion(ver): a Version without sources is dropped; the set
\* holds one Version per name, in name order
addVersion(versions, ver) ==
  IF ver.sources = 0 THEN versions
  ELSE IF \E n \in 1..Len(versions) : compare(versions[n].name, ver.name) = 0
    THEN versions
  ELSE SelectSeq(versions, LAMBDA v : compare(v.name, ver.name) < 0)
         \o <<ver>>
         \o SelectSeq(versions, LAMBDA v : compare(v.name, ver.name) > 0)

\* Package::version(i), i counted from 0
version(versions, i) == versions[i + 1]

InitPackage ==
  /\ NoTransaction /\ NoJobs /\ NoIndex /\ NoProgress
  /\ m_versions = <<>>
  /\ added = <<>>

AddVersion(ver) ==
  /\ Len(added) < MaxAdds
  /\ m_versions' = addVersion(m_versions, ver)
  /\ added' = Append(added, ver)
  /\ UNCHANGED << transaction, jobs, index, progress >>

NextPackage == \E ver \in Versions : AddVersion(ver)

SpecPackage == InitPackage /\ [][NextPackage]_vars

(***************************************************************************)
(* RemoteIndex and Category (index.cpp): a third object beside the         *)
(* Transaction, built by addVersion, addPackage and addCategory calls.     *)
(***************************************************************************)
\* how many addPackage and addCategory calls
MaxIndexCalls == 4

PkgNames == {"p1", "p2"}

CatNames == {"c1", "c2"}

IndexNames == {"i1", "i2"}

\* Package::Type
Types == {"UnknownType", "ScriptType"}

\* the Versions a loader offers a Package: "1" with a source, "1.9" without
IndexVersions ==
  { [name |-> << <<1>> >>, sources |-> 1],
    [name |-> << <<1>>, <<9>> >>, sources |-> 0] }

\* what a call does: what it throws ("" when it returns) and the container after it
Done(container) == [thrown |-> "", container |-> container]

Throw(what, container) == [thrown |-> what, container |-> container]

\* Category::addPackage keeping a Package without versions
addPackageKeepingEmpty(c, p) ==
  IF packages[p].category # c
    THEN Throw("package belongs to another category", categories[c].m_packages)
  ELSE IF packages[p].type = "UnknownType"
    THEN Done(categories[c].m_packages)
  ELSE Done(Append(categories[c].m_packages, p))

\* Category::addPackage(pkg) on Category c
addPackage(c, p) ==
  IF packages[p].category # c
    THEN Throw("package belongs to another category", categories[c].m_packages)
  ELSE IF packages[p].type = "UnknownType"
    THEN Done(categories[c].m_packages)
  ELSE IF packages[p].versions = <<>>
    THEN Done(categories[c].m_packages)
  ELSE Done(Append(categories[c].m_packages, p))

\* RemoteIndex::addCategory keeping a Category without packages
addCategoryKeepingEmpty(i, c) ==
  IF categories[c].index # i
    THEN Throw("category belongs to another index", indexes[i])
  ELSE Done([m_categories |-> Append(indexes[i].m_categories, c),
             m_packages |-> indexes[i].m_packages \o categories[c].m_packages])

\* RemoteIndex::addCategory(cat) on RemoteIndex i
addCategory(i, c) ==
  IF categories[c].index # i
    THEN Throw("category belongs to another index", indexes[i])
  ELSE IF categories[c].m_packages = <<>>
    THEN Done(indexes[i])
  ELSE Done([m_categories |-> Append(indexes[i].m_categories, c),
             m_packages |-> indexes[i].m_packages \o categories[c].m_packages])

\* Packages of either type in either Category, without versions yet; Category
\* c1 made for RemoteIndex i1 and c2 for i2; nothing added anywhere
InitIndex ==
  /\ NoTransaction /\ NoJobs /\ NoPackage /\ NoProgress
  /\ packages \in [PkgNames -> [type : Types, category : CatNames, versions : {<<>>}]]
  /\ categories = [c \in CatNames |->
       [index |-> IF c = "c1" THEN "i1" ELSE "i2", m_packages |-> <<>>]]
  /\ indexes = [i \in IndexNames |-> [m_categories |-> <<>>, m_packages |-> <<>>]]
  /\ thrown = <<>>

\* Package::addVersion on Package p
PackageAddVersion(p, ver) ==
  /\ packages' = [packages EXCEPT ![p].versions = addVersion(@, ver)]
  /\ UNCHANGED << categories, indexes, thrown >>
  /\ UNCHANGED << transaction, jobs, package, progress >>

AddPackage(c, p) ==
  /\ Len(thrown) < MaxIndexCalls
  /\ LET r == addPackage(c, p) IN
       /\ categories' = [categories EXCEPT ![c].m_packages = r.container]
       /\ thrown' = Append(thrown,
            [call |-> "addPackage", on |-> c, arg |-> p, what |-> r.thrown])
  /\ UNCHANGED << packages, indexes >>
  /\ UNCHANGED << transaction, jobs, package, progress >>

AddCategory(i, c) ==
  /\ Len(thrown) < MaxIndexCalls
  /\ LET r == addCategory(i, c) IN
       /\ indexes' = [indexes EXCEPT ![i] = r.container]
       /\ thrown' = Append(thrown,
            [call |-> "addCategory", on |-> i, arg |-> c, what |-> r.thrown])
  /\ UNCHANGED << packages, categories >>
  /\ UNCHANGED << transaction, jobs, package, progress >>

NextIndex ==
  \/ \E p \in PkgNames, ver \in IndexVersions : PackageAddVersion(p, ver)
  \/ \E c \in CatNames, p \in PkgNames : AddPackage(c, p)
  \/ \E i \in IndexNames, c \in CatNames : AddCategory(i, c)

SpecIndex == InitIndex /\ [][NextIndex]_vars

(***************************************************************************)
(* Progress (progress.cpp): the dialog that counts the downloads of the    *)
(* Transaction it was given, through the observers it registers on that    *)
(* Transaction's queue and on each Download pushed to it.                  *)
(***************************************************************************)
\* how many setTransaction calls, and how many downloads pushed per queue
MaxSets == 2

MaxPushes == 2

Transactions == {"t1", "t2"}

Nullptr == "nullptr"

\* Progress::updateProgress(): the operands of its division are kept, in
\* the order of the calls
updateProgress(d) ==
  [d EXCEPT !.divisions = Append(@, [done |-> d.m_done, total |-> d.m_total])]

\* Progress::setTransaction(t)
setTransaction(ps, t) ==
  LET d == [ps.dialog EXCEPT !.m_transaction = t, !.m_done = 0, !.m_total = 0]
  IN IF t = Nullptr THEN [ps EXCEPT !.dialog = d]
     ELSE [dialog |-> d,
           watched |-> [ps.watched EXCEPT ![t].onPush = @ + 1]]

\* Progress::addDownload(dl), dl being download j of the queue of t
addDownload(ps, t, j) ==
  [dialog |-> updateProgress([ps.dialog EXCEPT !.m_total = @ + 1]),
   watched |-> [ps.watched EXCEPT ![t].downloads[j].onFinish = @ + 1]]

\* the callback addDownload registers with dl->onFinish
onFinishCallback(d) == updateProgress([d EXCEPT !.m_done = @ + 1])

\* DownloadQueue::push(dl): each onPush observer is called with dl
RECURSIVE firePush(_, _, _, _)
firePush(ps, t, j, n) ==
  IF n = 0 THEN ps ELSE firePush(addDownload(ps, t, j), t, j, n - 1)

progressPush(ps, t) ==
  firePush([ps EXCEPT !.watched[t].downloads =
                        Append(@, [finished |-> FALSE, onFinish |-> 0])],
           t, Len(ps.watched[t].downloads) + 1, ps.watched[t].onPush)

\* Download::finish: each onFinish observer of the Download is called
RECURSIVE fireFinish(_, _)
fireFinish(d, n) == IF n = 0 THEN d ELSE fireFinish(onFinishCallback(d), n - 1)

progressFinish(ps, t, j) ==
  [dialog |-> fireFinish(ps.dialog, ps.watched[t].downloads[j].onFinish),
   watched |-> [ps.watched EXCEPT ![t].downloads[j].finished = TRUE]]

\* Progress::Progress(), and two Transactions with nothing pushed
InitProgress ==
  /\ NoTransaction /\ NoJobs /\ NoPackage /\ NoIndex
  /\ dialog = [m_transaction |-> Nullptr, m_done |-> 0, m_total |-> 0,
               divisions |-> <<>>, sets |-> 0]
  /\ watched = [t \in Transactions |-> [onPush |-> 0, downloads |-> <<>>]]

SetTransaction(t) ==
  /\ dialog.sets < MaxSets
  /\ LET ps == setTransaction([dialog |-> dialog, watched |-> watched], t) IN
       /\ dialog' = [ps.dialog EXCEPT !.sets = @ + 1]
       /\ watched' = ps.watched
  /\ UNCHANGED << transaction, jobs, package, index >>

\* a Download is pushed to the queue of Transaction t
Push(t) ==
  /\ Len(watched[t].downloads) < MaxPushes
  /\ LET ps == progressPush([dialog |-> dialog, watched |-> watched], t) IN
       dialog' = ps.dialog /\ watched' = ps.watched
  /\ UNCHANGED << transaction, jobs, package, index >>

\* download j of the queue of Transaction t finishes
FinishDownload(t, j) ==
  /\ ~watched[t].downloads[j].finished
  /\ LET ps == progressFinish([dialog |-> dialog, watched |-> watched], t, j) IN
       dialog' = ps.dialog /\ watched' = ps.watched
  /\ UNCHANGED << transaction, jobs, package, index >>

NextProgress ==
  \/ \E t \in Transactions \cup {Nullptr} : SetTransaction(t)
  \/ \E t \in Transactions : Push(t)
  \/ \E t \in Transactions : \E j \in 1..Len(watched[t].downloads) :
       FinishDownload(t, j)

SpecProgress == InitProgress /\ [][NextProgress]_vars

(***************************************************************************)
(* Properties.                                                             *)
(***************************************************************************)
Observers == SelectSeq(log, LAMBDA x : x.ev \in {"onFinish", "onDestroy"})

Commits == SelectSeq(log, LAMBDA x : x.ev \in {"commit", "registry"})

FinalFiles(d) == {f \in d : f.kind = "final"}

TempFiles(d) == {f \in d : f.kind = "tmp"}

\* C1: whatever the calls and the download completions, onFinish and
\* onDestroy never fire more than once each, onFinish first.
C1_ObserversFireOnce ==
  Observers \in {<<>>, <<Event("onFinish", 0)>>,
                 <<Event("onFinish", 0), Event("onDestroy", 0)>>}

\* C2: a step that leaves the Transaction cancelled (the cancelling call and
\* every step after it) invokes no task's commit() and no Registry commit,
\* and changes neither the staged nor the durable Registry.
C2_NoCommitOnceCancelled ==
  [][m_isCancelled' =>
       /\ Commits' = Commits
       /\ m_registry' = m_registry
       /\ durable' = durable]_vars

\* a Transaction cancelled while its tasks waited for their downloads has
\* finished
C2_Witness == m_isCancelled /\ Finished /\ m_tasks # <<>> /\ Commits = <<>>

\* C3: once a Transaction that was not cancelled has finished, commit() was
\* invoked on its tasks in creation order, each once, and the Registry was
\* committed once, after the last of them.
C3_CommitOrder ==
  (Finished /\ ~m_isCancelled) =>
    Commits = [k \in 1..Len(m_tasks) + 1 |->
                 IF k <= Len(m_tasks) THEN Event("commit", k)
                 ELSE Event("registry", 0)]

\* the packages of the loaded indexes, and how many of them claim a path
LoadedPkgs ==
  {q \in Pkgs : \E i \in 1..Len(m_remoteIndexes) : RemoteOf(q) = m_remoteIndexes[i]}

Claimants(path) == {q \in LoadedPkgs : path \in lastVersion(q).files}

ErrorsAbout(context) == Len(SelectSeq(m_errors, LAMBDA e : e.context = context))

FileDownloads == {i \in 1..Len(m_queue) : m_queue[i].kind = "file"}

\* C4: when the resolved indexes hold a path that two packages claim,
\* hasConflicts is set, the Installing phase is skipped (no task, no package
\* file download, for any package), and neither an install target nor a
\* staged file is written nor the Registry changed, to the end and after.
C4_ConflictsFailClosed ==
  (passes > 0 /\ \E path \in Paths : Cardinality(Claimants(path)) > 1) =>
    /\ m_hasConflicts
    /\ m_step # "Install"
    /\ m_tasks = <<>>
    /\ FileDownloads = {}
    /\ FinalFiles(disk) = FinalFiles(initial.disk)
    /\ TempFiles(disk) = {}
    /\ m_registry = initial.registry
    /\ durable = initial.registry
    /\ m_new = <<>> /\ m_updates = <<>> /\ m_removals = <<>>

\* a conflicted wave that also holds a package nobody conflicts with (B,
\* not yet installed) has finished
C4_Witness ==
  /\ Finished
  /\ m_hasConflicts
  /\ LoadedPkgs = {"A", "B", "C"}
  /\ initial.registry["B"] = 0

\* C5: after a resolution pass each path has one conflict error per claim
\* beyond the first, hasConflicts tells whether some path was claimed twice,
\* and every package of every loaded index was registered.
C5_EveryConflictReported ==
  /\ \A path \in Paths :
       ErrorsAbout(PathCtx(path)) =
         IF passes > 0 /\ Cardinality(Claimants(path)) > 1
           THEN Cardinality(Claimants(path)) - 1 ELSE 0
  /\ m_hasConflicts = (passes > 0 /\ \E path \in Paths : Cardinality(Claimants(path)) > 1)
  /\ m_files = IF passes > 0 THEN UNION {lastVersion(q).files : q \in LoadedPkgs} ELSE {}

\* r2 was loaded first: A then conflicts on both its paths, and B of the
\* same index is still registered after it
C5_Witness ==
  /\ m_remoteIndexes = <<"r2", "r1">>
  /\ ErrorsAbout(PathCtx("f1")) = 1
  /\ ErrorsAbout(PathCtx("f2")) = 1
  /\ "f3" \in m_files

\* C6: a cancel() on a Transaction that is already cancelled or has already
\* finished fires no observer, commits nothing, and leaves the Registry,
\* the tasks and the errors as they are.
C6_CancelIdempotent ==
  [][(cancels' = cancels + 1 /\ (m_isCancelled \/ Finished)) =>
       /\ log' = log
       /\ m_registry' = m_registry
       /\ durable' = durable
       /\ m_errors' = m_errors
       /\ m_tasks' = m_tasks]_vars

\* C7: a Transaction cancelled before any commit and now finished has left
\* the Registry as it found it, no new install target on disk, and no staged
\* temporary file.
C7_CancelLeavesNothing ==
  (m_isCancelled /\ Finished /\ Commits = <<>>) =>
    /\ m_registry = initial.registry
    /\ durable = initial.registry
    /\ FinalFiles(disk) = FinalFiles(initial.disk)
    /\ TempFiles(disk) = {}

\* C8: a Transaction whose one call was uninstall(remote), for a remote
\* without Registry entries, is cancelled and finished, with no task, no
\* error, no removal, no commit, and the Registry and the disk untouched.
C8_UninstallNothing ==
  \A remote \in Remotes :
    ( /\ calls = <<[op |-> "uninstall", remote |-> remote]>>
      /\ queryAll([reg |-> initial.registry], remote) = <<>> ) =>
        /\ m_isCancelled
        /\ Finished
        /\ m_tasks = <<>>
        /\ m_errors = <<>>
        /\ m_removals = <<>>
        /\ Commits = <<>>
        /\ m_registry = initial.registry
        /\ durable = initial.registry
        /\ disk = initial.disk

\* uninstall(r2) when C is not installed, while A of r1 is
C8_Witness ==
  /\ calls = <<[op |-> "uninstall", remote |-> "r2"]>>
  /\ initial.registry["C"] = 0
  /\ initial.registry["A"] # 0
  /\ Finished

IndexDownloads(remote) ==
  {i \in 1..Len(m_queue) : m_queue[i].kind = "index" /\ m_queue[i].name = remote}

Loads(remote) == Len(SelectSeq(m_remoteIndexes, LAMBDA r : r = remote))

IndexErrors(remote) == ErrorsAbout(Url(remote)) + ErrorsAbout(IndexFile(remote))

\* C9: a remote whose index download has ended is either loaded, with no
\* error about it, or not loaded, with exactly one error about it (always so
\* when the download did not succeed); before that it is neither.  A failing
\* remote does not cancel the Transaction, and once the wave is over the
\* packages of every loaded index have been resolved.
C9_IndexFailuresAreLocal ==
  /\ \A remote \in Remotes :
       /\ Loads(remote) <= 1
       /\ \A i \in IndexDownloads(remote) :
            /\ m_queue[i].state \notin Terminal =>
                 Loads(remote) = 0 /\ IndexErrors(remote) = 0
            /\ m_queue[i].state \in Terminal =>
                 \/ /\ Loads(remote) = 1
                    /\ IndexErrors(remote) = 0
                    /\ m_queue[i].state = "Success"
                    /\ IndexFile(remote) \in disk
                 \/ Loads(remote) = 0 /\ IndexErrors(remote) = 1
       /\ IndexDownloads(remote) = {} => Loads(remote) = 0 /\ IndexErrors(remote) = 0
  /\ m_isCancelled => (cancels > 0 \/ Called("uninstall") # {})
  /\ ( /\ Called("synchronize") # {}
       /\ \A remote \in Remotes : \A i \in IndexDownloads(remote) :
            m_queue[i].state \in Terminal ) =>
        /\ passes = 1
        /\ \A q \in LoadedPkgs : lastVersion(q).files \subseteq m_files
        /\ \A q \in LoadedPkgs :
             initial.registry[q] = 0 =>
               \E n \in 1..Len(m_packages) : m_packages[n].ver.pkg = q

\* r1 failed and r2, synchronized in the same wave, was loaded and resolved
C9_Witness ==
  /\ Called("synchronize") = {"r1", "r2"}
  /\ IndexErrors("r1") = 1
  /\ m_remoteIndexes = <<"r2">>
  /\ passes = 1
  /\ m_packages # <<>>
  /\ ~m_isCancelled

Satisfied(q) ==
  /\ StatusOf(initial.registry, q) = "UpToDate"
  /\ \A f \in lastVersion(q).files : Final(f) \in initial.disk

Candidates(q) == {n \in 1..Len(m_packages) : m_packages[n].ver.pkg = q}

\* C10: resolution makes no candidate of a package that is UpToDate with all
\* its files on disk and exactly one of every other package of a loaded
\* index: its latest version with its registry entry, the status of an
\* UpToDate entry with a missing file turned into Uninstalled.
C10_Candidates ==
  /\ passes = 0 => m_packages = <<>>
  /\ passes > 0 =>
       \A q \in Pkgs :
         /\ Cardinality(Candidates(q)) =
              IF q \in LoadedPkgs /\ ~Satisfied(q) THEN 1 ELSE 0
         /\ \A n \in Candidates(q) :
              /\ m_packages[n].ver = lastVersion(q)
              /\ m_packages[n].entry.pkg = q
              /\ m_packages[n].entry.version = initial.registry[q]
              /\ m_packages[n].entry.status =
                   IF StatusOf(initial.registry, q) = "UpToDate" THEN "Uninstalled"
                   ELSE StatusOf(initial.registry, q)

\* A is UpToDate with its files and skipped; B is UpToDate with its file
\* missing and a candidate
C10_Witness ==
  /\ passes > 0
  /\ LoadedPkgs = {"A", "B"}
  /\ Satisfied("A")
  /\ StatusOf(initial.registry, "B") = "UpToDate"
  /\ Candidates("B") # {}
  /\ Candidates("A") = {}

Greatest(names) == CHOOSE n \in names : \A m \in names : m <= n

InstallTasksOf(q) ==
  {k \in 1..Len(m_tasks) : m_tasks[k].kind = "install" /\ m_tasks[k].pkg = q}

DownloadsOf(k) == {m_queue[i].name : i \in {j \in FileDownloads : m_queue[j].task = k}}

\* a wave that ended without a cancel, a conflict, an error or a failed
\* Registry commit
Successful ==
  /\ Finished
  /\ ~m_isCancelled
  /\ ~m_hasConflicts
  /\ m_errors = <<>>
  /\ faults = 0

\* C11: after a successful conflict-free synchronize, a package offered in
\* several versions has one InstallTask (none when it was already up to date
\* with its files), for the version of the greatest name and with that
\* version's files only; no file of an older version was written, and the
\* Registry, staged and durable, reports the package at that version,
\* UpToDate, with its files on disk.
C11_LatestVersionOnly ==
  \A q \in Pkgs :
    (Successful /\ q \in LoadedPkgs /\ Cardinality(VersionNames(q)) > 1) =>
      LET latest == Greatest(VersionNames(q)) IN
      /\ Cardinality(InstallTasksOf(q)) = IF Satisfied(q) THEN 0 ELSE 1
      /\ \A k \in InstallTasksOf(q) :
           /\ m_tasks[k].ver = latest
           /\ m_tasks[k].files = VersionFiles(q, latest)
           /\ DownloadsOf(k) = VersionFiles(q, latest)
      /\ \A n \in VersionNames(q) \ {latest} :
           \A f \in VersionFiles(q, n) \ VersionFiles(q, latest) :
             Final(f) \in disk => Final(f) \in initial.disk
      /\ m_registry[q] = latest
      /\ durable[q] = latest
      /\ query(S, q).status = "UpToDate"
      /\ \A f \in VersionFiles(q, latest) : Final(f) \in disk

\* A, offered as 10 and 11 and not installed before, was installed
C11_Witness ==
  /\ Successful
  /\ initial.registry["A"] = 0
  /\ Cardinality(InstallTasksOf("A")) = 1
  /\ m_registry["A"] = 11
  /\ Final("f0") \notin disk

Logged(e) == {log[n].task : n \in {j \in 1..Len(log) : log[j].ev = e}}

Occurrences(e, k) == Len(SelectSeq(log, LAMBDA x : x = Event(e, k)))

\* what the commit of install task k leaves: the version pushed, its files
\* at their final paths, nothing staged
InstallCommitted(k) ==
  /\ Occurrences("commit", k) = 1
  /\ m_registry[m_tasks[k].pkg] = m_tasks[k].ver
  /\ \A f \in m_tasks[k].files : Final(f) \in disk /\ Temp(f) \notin disk
  /\ \E n \in 1..Len(m_new \o m_updates) :
       (m_new \o m_updates)[n] = [pkg |-> m_tasks[k].pkg, ver |-> m_tasks[k].ver]

\* C12: an install commit whose host registration failed has recorded one
\* error, with the version's full name as context, and is otherwise a
\* commit like any other: the version is pushed, and durable unless the
\* Registry commit itself failed, the files stay at their final paths, and
\* every other task that was not rolled back has committed too.  No error
\* carries a full name without such a failure.
C12_HostFailureIsNotFatal ==
  /\ \A k \in Logged("HostError") :
       /\ Occurrences("HostError", k) = 1
       /\ ErrorsAbout(FullName(m_tasks[k].pkg)) = 1
       /\ InstallCommitted(k)
       /\ Logged("PersistenceError") = {} =>
            durable[m_tasks[k].pkg] = m_tasks[k].ver
       /\ \A j \in 1..Len(m_tasks) : ~m_tasks[j].cancelled => InstallCommitted(j)
       /\ Finished
  /\ \A q \in Pkgs :
       ErrorsAbout(FullName(q)) =
         Cardinality({k \in Logged("HostError") : m_tasks[k].pkg = q})

\* the registration of A failed and B, created after it, was committed with
\* its registration succeeding
C12_Witness ==
  /\ Logged("HostError") = {1}
  /\ m_tasks[1].pkg = "A"
  /\ Len(m_tasks) = 2
  /\ m_tasks[2].pkg = "B"
  /\ ~m_tasks[2].cancelled
  /\ durable["A"] = 11
  /\ durable["B"] = 10
  /\ m_errors = <<[message |-> "Cannot register", context |-> FullName("A")]>>

FailedDownloads(k) ==
  {i \in FileDownloads : m_queue[i].task = k /\ m_queue[i].state \in {"Failure", "Aborted"}}

\* install task k took no effect: its callback did not run (nothing pushed,
\* nothing reported), no file of it reached a final path, nothing is staged
Excluded(k) ==
  /\ m_registry[m_tasks[k].pkg] = initial.registry[m_tasks[k].pkg]
  /\ durable[m_tasks[k].pkg] = initial.registry[m_tasks[k].pkg]
  /\ \A n \in 1..Len(m_new \o m_updates) : (m_new \o m_updates)[n].pkg # m_tasks[k].pkg
  /\ \A f \in m_tasks[k].files :
       /\ Final(f) \in disk => Final(f) \in initial.disk
       /\ Temp(f) \notin disk
  /\ m_tasks[k].staged = {}

OthersCommit(k) ==
  (Finished /\ ~m_isCancelled) =>
    \A j \in 1..Len(m_tasks) : FailedDownloads(j) = {} => InstallCommitted(j)

\* C13: an install task with a download that ended in Failure or Aborted is
\* excluded from commit and rolled back, one error with the package's full
\* name as context is recorded for it, and once the Transaction has finished
\* the tasks without such a download have committed.
C13_FailedTaskExcluded ==
  \A k \in 1..Len(m_tasks) :
    (m_tasks[k].kind = "install" /\ FailedDownloads(k) # {}) =>
      /\ Excluded(k)
      /\ OthersCommit(k)
      /\ ErrorsAbout(FullName(m_tasks[k].pkg)) = 1

\* every owned path of every entry of registry reg exists on disk d
Derivable(reg, d) ==
  \A p \in Installed(reg) : \A f \in OwnedFiles(reg, p) : Final(f) \in d

\* C14: a Transaction constructed over a disk that holds every owned file
\* of the Registry, once finished (after an install, an uninstall, a cancel
\* or a failed Registry commit), leaves a disk that holds every owned path
\* of every entry the durable Registry lists as installed.
C14_DurableFilesExist ==
  (Finished /\ Derivable(initial.registry, initial.disk)) => Derivable(durable, disk)

\* C15: the Transaction is constructed over a committed Registry in which no
\* path is owned twice (the state any earlier Transaction left), and in
\* every durable Registry state it produces each path is owned by at most
\* one installed package, whichever remotes are synchronized.
C15_SingleOwner ==
  \A p, q \in Installed(durable) :
    p # q => OwnedFiles(durable, p) \cap OwnedFiles(durable, q) = {}

Outstanding(q) == {i \in 1..Len(q) : q[i].state \notin Terminal}

\* C16: the queue's drained signal (the handler the constructor registered)
\* fires in a step exactly when jobs were outstanding before it and every
\* job pushed until then is terminal after it, and then once: once per push
\* wave, after its last job whichever that is, never while a job of the wave
\* is queued or running, and never without a wave.
C16_DrainOncePerWave ==
  [][/\ Fired("onDone")' \in {Fired("onDone"), Fired("onDone") + 1}
     /\ Fired("onDone")' = Fired("onDone") + 1 <=>
          /\ Outstanding(m_queue) # {}
          /\ \A i \in 1..Len(m_queue) : m_queue'[i].state \in Terminal]_vars

\* two waves were drained: the index downloads of both remotes, one of
\* them failing, and then the file downloads of the two install tasks
C16_Witness ==
  /\ Fired("onDone") = 2
  /\ Called("synchronize") = {"r1", "r2"}
  /\ m_remoteIndexes = <<"r1">>
  /\ Len(m_tasks) = 2
  /\ Cardinality(FileDownloads) = 3
  /\ Outstanding(m_queue) = {}

\* C17: a Download is Idle with nothing announced, or Running having
\* announced just that, or in one terminal state reached from Running (or
\* as Aborted straight from Idle) by one finish that fired every registered
\* observer once in registration order; and the step in which its transfer
\* returns always ends in a terminal state.
C17_OneFinishPerRun ==
  /\ [](\A i \in 1..Len(jobs) :
          LET dl == jobs[i] IN
          /\ dl.state \in {"Idle", "Running"} \cup Terminal
          /\ dl.state = "Idle" => dl.notified = <<>> /\ dl.fired = <<>>
          /\ dl.state = "Running" =>
               dl.notified = <<"Running">> /\ dl.fired = <<>> /\ dl.started
          /\ dl.state \in Terminal =>
               /\ \/ dl.notified = <<"Running", dl.state>>
                  \/ dl.notified = <<"Aborted">>
               /\ dl.fired = dl.registered
               /\ dl.started
          /\ dl.state = "Aborted" => dl.abort)
  /\ [][\A i \in 1..Len(jobs) :
          (jobs[i].state = "Running" /\ jobs'[i].notified # jobs[i].notified) =>
            jobs'[i].state \in Terminal]_vars

\* one job failed after running and fired its three observers in the order
\* of their registration; the other was aborted before it ran
C17_Witness ==
  /\ jobs[1].state = "Failure"
  /\ jobs[1].registered = <<"queue", "owner", "thread">>
  /\ jobs[1].fired = <<"queue", "owner", "thread">>
  /\ jobs[2].notified = <<"Aborted">>

Ascending ==
  << << <<0>>, <<5>> >>, << <<1>> >>, << <<1>>, <<9>> >>, << <<1>>, <<1, 0>> >> >>

\* the names of the Versions with sources that were added, in ascending order
KeptNames ==
  SelectSeq(Ascending,
            LAMBDA name : \E n \in 1..Len(added) :
                            added[n].name = name /\ added[n].sources > 0)

\* C19: whatever Versions were added and in whatever order, the Package's
\* version list holds the names of those with sources in ascending numeric
\* order (1.9 before 1.10), version(i) is the i-th of that order counted
\* from 0, and lastVersion() is the one with the greatest name.
C19_VersionsSorted ==
  /\ [n \in 1..Len(m_versions) |-> m_versions[n].name] = KeptNames
  /\ \A n \in 1..Len(m_versions) :
       \E k \in 1..Len(added) : added[k] = m_versions[n]
  /\ \A i \in 0..(Len(m_versions) - 1) : version(m_versions, i).name = KeptNames[i + 1]
  /\ m_versions # <<>> =>
       /\ lastOf(m_versions).name = KeptNames[Len(KeptNames)]
       /\ \A n \in 1..Len(m_versions) :
            compare(m_versions[n].name, lastOf(m_versions).name) <= 0

\* 1.10 was added first, then 0.5 and 1.9
C19_Witness ==
  /\ Len(added) = 3
  /\ added[1].name = << <<1>>, <<1, 0>> >>
  /\ added[2].name = << <<0>>, <<5>> >>
  /\ added[3].name = << <<1>>, <<9>> >>
  /\ Len(m_versions) = 3
  /\ lastOf(m_versions) = added[1]

\* C20: an addVersion of a Version without sources leaves the version set
\* as it was, and a Package that was given only such Versions has an empty
\* version set and no last version.
C20_EmptyVersionDropped ==
  /\ [][\A ver \in Versions :
          (added' = Append(added, ver) /\ ver.sources = 0) =>
            m_versions' = m_versions]_vars
  /\ []((\A n \in 1..Len(added) : added[n].sources = 0) =>
          m_versions = <<>> /\ lastOf(m_versions) = Null)

\* two Versions without sources were added to a Package and nothing else
C20_Witness ==
  /\ Len(added) = 2
  /\ added[1].sources = 0
  /\ added[2].sources = 0
  /\ added[1].name # added[2].name
  /\ m_versions = <<>>

(***************************************************************************)
(* C21: after any addPackage and addCategory calls every Package a         *)
(* Category retains has a known type and at least one version and every    *)
(* Category a RemoteIndex retains has at least one Package; a call given   *)
(* an unknown-type Package, a Package without versions or an empty         *)
(* Category throws nothing and leaves the container as it was; a call      *)
(* given a child of another parent throws and leaves the container as it   *)
(* was.                                                                    *)
(***************************************************************************)
Retained ==
  /\ \A c \in CatNames : \A n \in 1..Len(categories[c].m_packages) :
       LET pkg == packages[categories[c].m_packages[n]] IN
         pkg.type # "UnknownType" /\ pkg.versions # <<>>
  /\ \A i \in IndexNames : \A n \in 1..Len(indexes[i].m_categories) :
       categories[indexes[i].m_categories[n]].m_packages # <<>>

\* the child the call was given belongs to another parent
Foreign(k) ==
  IF k.call = "addPackage" THEN packages[k.arg].category # k.on
  ELSE categories[k.arg].index # k.on

\* the child the call was given is one to drop
Dropped(k) ==
  IF k.call = "addPackage"
    THEN packages[k.arg].type = "UnknownType" \/ packages[k.arg].versions = <<>>
  ELSE categories[k.arg].m_packages = <<>>

C21_IndexContainers ==
  /\ []Retained
  /\ [][Len(thrown') > Len(thrown) =>
         LET k == thrown'[Len(thrown')] IN
           /\ Foreign(k) =>
                k.what # "" /\ categories' = categories /\ indexes' = indexes
           /\ ~Foreign(k) /\ Dropped(k) =>
                k.what = "" /\ categories' = categories /\ indexes' = indexes]_vars

\* an index that retained a Category with a Package, after a call of each
\* refused kind: a foreign Package, a foreign Category, a dropped Package
\* and an empty Category
C21_Witness ==
  /\ \E i \in IndexNames : indexes[i].m_packages # <<>>
  /\ \E n \in 1..Len(thrown) : thrown[n].call = "addPackage" /\ thrown[n].what # ""
  /\ \E n \in 1..Len(thrown) : thrown[n].call = "addCategory" /\ thrown[n].what # ""
  /\ \E p \in PkgNames : packages[p].type = "UnknownType"
  /\ Len(thrown) = MaxIndexCalls

(***************************************************************************)
(* C28: every Package reachable through the packages() of a RemoteIndex    *)
(* built by addPackage and addCategory has at least one version, so the    *)
(* lastVersion() that updateAll dereferences is never null.                *)
(***************************************************************************)
C28_LastVersionNotNull ==
  \A i \in IndexNames : \A n \in 1..Len(indexes[i].m_packages) :
    lastOf(packages[indexes[i].m_packages[n]].versions) # Null

\* an index with a Package to visit, whose Category was also offered a
\* Package of its own, of a known type, that has no version
C28_Witness ==
  \E i \in IndexNames :
    /\ indexes[i].m_packages # <<>>
    /\ \E n \in 1..Len(thrown) :
         /\ thrown[n].call = "addPackage"
         /\ thrown[n].on \in {indexes[i].m_categories[m] :
                                m \in 1..Len(indexes[i].m_categories)}
         /\ packages[thrown[n].arg].category = thrown[n].on
         /\ packages[thrown[n].arg].type = "ScriptType"
         /\ packages[thrown[n].arg].versions = <<>>

(***************************************************************************)
(* C22: only the files of install candidates are registered: a package     *)
(* skipped as already satisfied claims no path, causes no conflict error   *)
(* and does not set hasConflicts.                                          *)
(***************************************************************************)
CandidateFiles == UNION {m_packages[n].ver.files : n \in 1..Len(m_packages)}

Unsatisfied(path) == {q \in Claimants(path) : ~Satisfied(q)}

C22_OnlyCandidatesRegistered ==
  passes > 0 =>
    /\ m_files = CandidateFiles
    /\ \A path \in Paths :
         ErrorsAbout(PathCtx(path)) =
           IF Cardinality(Unsatisfied(path)) > 1
             THEN Cardinality(Unsatisfied(path)) - 1 ELSE 0
    /\ m_hasConflicts = \E path \in Paths : Cardinality(Unsatisfied(path)) > 1

\* C22 as the code has it: the files of the latest version of every package
\* of a loaded index are registered before the satisfied test, so a package
\* skipped as satisfied is no candidate but holds its paths, and a path it
\* shares with another package of the pass is a conflict, with its error.
C22_SatisfiedPackagesRegistered ==
  passes > 0 =>
    \A q \in LoadedPkgs : Satisfied(q) =>
      /\ Candidates(q) = {}
      /\ lastVersion(q).files \subseteq m_files
      /\ \A path \in lastVersion(q).files :
           Claimants(path) # {q} =>
             m_hasConflicts /\ ErrorsAbout(PathCtx(path)) >= 1

\* A is installed at its latest version with both files on disk and skipped;
\* C, not installed, claims the same two paths in the same pass
C22_Witness ==
  /\ passes > 0
  /\ LoadedPkgs = {"A", "B", "C"}
  /\ Satisfied("A")
  /\ initial.registry["C"] = 0
  /\ Candidates("A") = {}
  /\ Candidates("C") # {}
  /\ m_hasConflicts

(***************************************************************************)
(* C23: a Transaction on which synchronize, uninstall or cancel was called *)
(* eventually fires onFinish, when every enqueued download reaches a       *)
(* terminal state; also when no download is ever outstanding.              *)
(***************************************************************************)
C23_EventuallyFinished == (calls # <<>> \/ cancels > 0) ~> Finished

\* an uninstall of a remote with installed packages has finished without a
\* single download
C23_Witness ==
  /\ Called("uninstall") # {}
  /\ m_tasks # <<>>
  /\ m_queue = <<>>
  /\ cancels = 0
  /\ Finished

\* what the fairness of SpecFair rests on: the worker pool's counts are those
\* of the queue, so only RunStart raises begun and only RunEnd lowers running
WorkersSeeTheQueue ==
  /\ [](transfers = Workers(m_queue))
  /\ [][/\ transfers'.begun > transfers.begun =>
             \E i \in 1..Len(m_queue) :
               m_queue[i].state = "Idle" /\ m_queue'[i].state # "Idle"
         /\ transfers'.running < transfers.running =>
             \E j \in 1..Len(m_queue) :
               m_queue[j].state = "Running" /\ m_queue'[j].state \in Terminal]_vars

(***************************************************************************)
(* C24: cancel() on an idle queue finishes at once; with jobs queued or in *)
(* flight it flags every such job aborted and does not finish, and the     *)
(* Transaction then finishes only in a step that signals the drain; no     *)
(* finish leaves a job of the queue short of a terminal state.             *)
(***************************************************************************)
Pending(queue) == {i \in 1..Len(queue) : queue[i].state \notin Terminal}

C24_CancelWaitsForDrain ==
  [][/\ cancels' = cancels + 1 =>
          IF Pending(m_queue) = {}
            THEN Fired("onFinish")' = Fired("onFinish") + 1
            ELSE /\ Fired("onFinish")' = Fired("onFinish")
                 /\ \A i \in Pending(m_queue) : m_queue'[i].abort
                 /\ Pending(m_queue') = Pending(m_queue)
     /\ Fired("onFinish")' > Fired("onFinish") =>
          /\ Pending(m_queue') = {}
          /\ (m_isCancelled /\ cancels' = cancels) =>
               Fired("onDone")' > Fired("onDone")]_vars

\* cancelled with one index download running and the other waiting, the
\* Transaction finished after both were aborted and the queue drained
C24_Witness ==
  /\ m_isCancelled
  /\ cancels = 1
  /\ Len(m_queue) = 2
  /\ \A i \in 1..Len(m_queue) : m_queue[i].state = "Aborted"
  /\ transfers.begun = 2
  /\ Fired("onDone") = 1
  /\ Fired("onFinish") = 1

(***************************************************************************)
(* C25: when the transfer of a running Download returns, the job finishes  *)
(* Aborted if its abort flag is set, whatever the transport's result;      *)
(* else Failure with a diagnostic message if the result is not OK; else    *)
(* Success.  The progress poll answers non-zero exactly when the abort     *)
(* flag is set, and a Download makes one transfer at most: a failed one is *)
(* not retried.                                                            *)
(***************************************************************************)
C25_OutcomeOrder ==
  /\ [](\A i \in 1..Len(jobs) :
          /\ jobs[i].transfers <= 1
          /\ jobs[i].state = "Failure" => jobs[i].reason = Diagnostic("CURLE_ERR"))
  /\ [][\A i \in 1..Len(jobs) :
          /\ (jobs[i].state = "Running" /\ jobs'[i].state # "Running") =>
               jobs'[i].state =
                 IF jobs[i].abort THEN "Aborted"
                 ELSE IF jobs'[i].contents # "bytes" THEN "Failure"
                 ELSE "Success"
          /\ jobs'[i].poll # jobs[i].poll =>
               (jobs'[i].poll # 0) = jobs[i].abort
          /\ jobs[i].state = "Failure" =>
               /\ jobs'[i].state = "Failure"
               /\ jobs'[i].transfers = jobs[i].transfers
               /\ jobs'[i].notified = jobs[i].notified]_vars

\* one job was aborted during a transfer that then succeeded, after its poll
\* had answered zero and then non-zero; the other failed with its diagnostic
C25_Witness ==
  /\ jobs[1].state = "Aborted"
  /\ jobs[1].contents = "bytes"
  /\ jobs[1].poll = 1
  /\ jobs[1].reason = "aborted by user"
  /\ jobs[2].state = "Failure"
  /\ jobs[2].poll = 0
  /\ jobs[2].transfers = 1

(***************************************************************************)
(* C26: the Transaction's step only moves forward, and on a Transaction    *)
(* that cancel() was called on no step but a call of its owner resolves    *)
(* anything: no pass of updateAll, no install candidate, no task, no       *)
(* further download, no change of step.                                    *)
(***************************************************************************)
Rank(step) == CASE step = "Unknown" -> 0 [] step = "Synchronize" -> 1 [] OTHER -> 2

C26_CancelledNeverResolves ==
  [][/\ Rank(m_step') >= Rank(m_step)
     /\ (m_isCancelled /\ calls' = calls) =>
          /\ passes' = passes
          /\ m_packages' = m_packages
          /\ m_tasks' = m_tasks
          /\ Len(m_queue') = Len(m_queue)
          /\ m_step' = m_step]_vars

(***************************************************************************)
(* C27: commit() is invoked on each task at most once, and only in a step  *)
(* that leaves every download terminal; each removed file is reported      *)
(* once.                                                                   *)
(***************************************************************************)
C27_CommitOncePerTask ==
  /\ [](/\ \A k \in 1..Len(m_tasks) : Occurrences("commit", k) <= 1
        /\ \A n, m \in 1..Len(m_removals) : m_removals[n] = m_removals[m] => n = m)
  /\ [][Commits' # Commits => Pending(m_queue') = {}]_vars

(***************************************************************************)
(* C29: whatever the interleaving of setTransaction, pushes and finishes,  *)
(* every division of updateProgress has 0 <= done <= total and total > 0.  *)
(***************************************************************************)
C29_DoneWithinTotal ==
  \A n \in 1..Len(dialog.divisions) :
    LET x == dialog.divisions[n] IN
      0 <= x.done /\ x.done <= x.total /\ x.total > 0

(***************************************************************************)
(* C30: the outcome of a resolution pass does not depend on the order in   *)
(* which the index downloads completed: resolving the same loaded indexes  *)
(* in any other order, over the same registry and disk, gives the same     *)
(* hasConflicts, the same set of conflict errors and the same set of       *)
(* install candidates.                                                     *)
(***************************************************************************)
\* the orders in which the loaded indexes could have been appended
Orders(ris) ==
  {o \in [1..Len(ris) -> {ris[n] : n \in 1..Len(ris)}] :
     \A n, m \in 1..Len(ris) : o[n] = o[m] => n = m}

\* the Transaction as it was when the queue drained, before the pass
BeforePass ==
  [S EXCEPT !.step = "Synchronize", !.conflicts = FALSE, !.packages = <<>>,
            !.files = {}, !.errors = <<>>, !.tasks = <<>>,
            !.reg = initial.registry, !.disk = initial.disk]

ConflictErrors(errors) ==
  {errors[n] : n \in {k \in 1..Len(errors) : errors[k].message = "Conflict"}}

CandidateSet(pkgs) == {pkgs[n] : n \in 1..Len(pkgs)}

C30_OrderIndependent ==
  passes > 0 =>
    \A o \in Orders(m_remoteIndexes) :
      LET r == visitIndexes(BeforePass, o) IN
        /\ r.conflicts = m_hasConflicts
        /\ ConflictErrors(r.errors) = ConflictErrors(m_errors)
        /\ CandidateSet(r.packages) = CandidateSet(m_packages)

\* r1 was synchronized first and r2's index arrived first; the pass found
\* the conflict between A and C, with B a candidate as well
C30_Witness ==
  /\ passes > 0
  /\ calls = <<[op |-> "synchronize", remote |-> "r1"],
               [op |-> "synchronize", remote |-> "r2"]>>
  /\ m_remoteIndexes = <<"r2", "r1">>
  /\ m_hasConflicts
  /\ Cardinality(ConflictErrors(m_errors)) = 2
  /\ Cardinality(CandidateSet(m_packages)) = 3

====
